---- MODULE Spec2Model ----
(***************************************************************************)
(* Job lifecycle, session cleanup and timeout watchdog of the Browserbase  *)
(* component (jobs.ts, executor.ts, sessions.ts, timeout.ts).              *)
(*                                                                         *)
(* Tables are sequences indexed by record id.  Mutations and queries are   *)
(* atomic; an action (executeJob, cleanupSession, watchdog) is a chain of  *)
(* atomic steps that other handlers may interleave with.  A call that      *)
(* reads and writes no table (a provider call, scheduler.runAfter inside   *)
(* an action) is taken in the step of the mutation next to it.             *)
(*                                                                         *)
(* Date.now() is read in coarse units (a unit is far longer than any       *)
(* backoff, which are seconds): an invocation the scheduler holds may      *)
(* start at the reading it was scheduled at or at any later one, whatever  *)
(* its delay, and no invocation has a deadline.  The delay each invocation *)
(* was scheduled with is kept, in seconds.                                 *)
(*                                                                         *)
(* Fields no handler reads (params, config, sessionOptions, connectUrl,    *)
(* sessionDuration, metrics) are left out of the records.                  *)
(***************************************************************************)
EXTENDS Integers, Sequences, FiniteSets, Bags, TLC

\* ------------------------------------------------------------------ bounds
\* Spec: jobs, executor, watchdog and the cleanup chains of their sessions.
MaxJobs == 1              \* jobs scheduled in one behaviour
MaxRetriesArg == 0        \* largest maxRetries given to scheduleJob
MaxSessions == 1          \* provider sessions created in one behaviour
MaxReports == 1           \* completeJob / failJob calls made by user actions
MaxCancels == 1           \* cancelJob calls
MaxWatchdogs == 1         \* watchdog invocations
MaxTime == 1              \* last clock reading
\* SpecJobs: jobs, executor and watchdog; cleanups stay with the scheduler.
JobsMaxJobs == 1
JobsMaxRetriesArg == 2
JobsMaxSessions == 2
JobsMaxReports == 2
JobsMaxCancels == 2
JobsMaxWatchdogs == 1
JobsMaxTime == 1
MaxReportsPerAction == 2  \* reports one user action makes
\* SpecWebhook: jobs, executor, watchdog and webhook deliveries.
HookMaxJobs == 1
HookMaxRetriesArg == 0
HookMaxSessions == 1
HookMaxReports == 2
HookMaxCancels == 1
\* SpecCron: the cron definition mutations.
CronMaxCalls == 4         \* createCronJob / updateCronJob / deleteCronJob calls
CronMaxCrons == 2         \* cron definitions ever inserted
CronMaxTime == 1          \* last clock reading
\* SpecTick: the cron definition mutations and processDueCronJobs.
TickMaxCalls == 3         \* createCronJob / updateCronJob / deleteCronJob calls
TickMaxCrons == 2         \* cron definitions ever inserted
TickMaxRuns == 2          \* processDueCronJobs invocations
TickMaxTime == 2          \* last clock reading
\* SpecBatch: processDueCronJobs on a table of many definitions.
BatchCrons == 101         \* cron definitions in the table
BatchMaxRuns == 2         \* processDueCronJobs invocations
BatchMaxTime == 2         \* last clock reading
\* SpecPair: two jobs and their executors and user actions.
PairMaxJobs == 2
PairMaxRetriesArg == 1
PairMaxSessions == 3
PairMaxReports == 2
\* SpecOrphan: one job, and executeJob invocations for an id without a record.
OrphanMaxJobs == 1
OrphanMaxRetriesArg == 1
OrphanMaxSessions == 2
OrphanMaxReports == 2
OrphanMaxCalls == 2       \* executeJob invocations for the id without a record
\* SpecRetry: one job that is retried, its executors and user actions.
RetryMaxJobs == 1
RetryMaxRetriesArg == 2
RetryMaxSessions == 3
RetryMaxReports == 2
\* SpecFlaky: processDueCronJobs with updateCronJobAfterRun calls that fail.
FlakyMaxCalls == 3        \* createCronJob / deleteCronJob calls
FlakyMaxCrons == 2        \* cron definitions ever inserted
FlakyMaxRuns == 3         \* processDueCronJobs invocations
FlakyMaxTime == 2         \* last clock reading
FlakyMaxErrors == 1       \* updateCronJobAfterRun calls that fail

\* --------------------------------------------------------- program values
MAX_ATTEMPTS == 3
WebhookMaxAttempts == 3   \* the literal in sendWebhook's retry test
NoId == 0       \* an optional id that is absent
NoTime == -1    \* an optional timestamp that is absent

JobTimeouts == {1}    \* timeout arguments given to the watchdog, in clock units
TerminalStatuses == {"completed", "failed", "cancelled"}
CreateStatuses == {"RUNNING", "TIMED_OUT"}          \* createSession results
ReleaseStatuses == {"none", "RUNNING", "COMPLETED"} \* completeSession results

NoError == [kind |-> "none", n |-> 0]
UserError == [kind |-> "user", n |-> 0]
CreateError == [kind |-> "create", n |-> 0]
DispatchError == [kind |-> "dispatch", n |-> 0]
NotFoundError == [kind |-> "Job not found", n |-> 0]
\* Math.round(ms / 1000)
RoundSeconds(ms) == (ms + 500) \div 1000
\* 'Job timed out after N seconds'; the clock counts seconds and the
\* watchdog's timeout argument is in milliseconds.
TimeoutError(timeout) ==
  [kind |-> "timeout", n |-> RoundSeconds(1000 * timeout)]

RECURSIVE Pow2(_)
Pow2(k) == IF k = 0 THEN 1 ELSE 2 * Pow2(k - 1)

VARIABLES
  now,        \* Date.now()
  jobs,       \* table jobs
  sessions,   \* table sessions
  scheduled,  \* ctx.scheduler: bag of invocations not yet started
  execs,      \* executeJob invocations in flight
  cleanups,   \* cleanupSession invocations in flight
  watchdogs,  \* watchdog invocations in flight
  callbacks,  \* user actions in flight
  jobLog,     \* per job: calls made on it, executeJob invocations scheduled
              \* for it, the passed nextRunAt it was spawned for (history)
  sessLog,    \* per session: creating job, status at creation, release
              \* calls made, cleanup invocations that skipped, time of its
              \* linkSession (history)
  calls,      \* number of calls made by the environment, the maxRetries
              \* argument of each scheduleJob call, the exceptions that left
              \* a background invocation, and the updateCronJobAfterRun calls
              \* that failed (history)
  deliveries, \* table webhookDeliveries
  sends,      \* sendWebhook invocations in flight
  crons,      \* table cronJobs
  cronLog,    \* the cron mutations called and the last one's outcome (history)
  cronRuns,   \* processDueCronJobs invocations in flight
  ticks       \* processDueCronJobs invocations started and finished, and
              \* what the last finished one read and logged (history)

webhookVars == <<deliveries, sends>>
tickVars == <<cronRuns, ticks>>
cronVars == <<crons, cronLog, cronRuns, ticks>>

vars == <<now, jobs, sessions, scheduled, execs, cleanups, watchdogs,
          callbacks, jobLog, sessLog, calls, deliveries, sends, crons,
          cronLog, cronRuns, ticks>>

JobIds == 1..Len(jobs)
SessionIds == 1..Len(sessions)

Task(fn, job, sess, attempt, delay) ==
  [fn |-> fn, job |-> job, sess |-> sess, attempt |-> attempt,
   delay |-> delay]

Add(bag, e) == bag (+) SetToBag({e})
Remove(bag, e) == bag (-) SetToBag({e})

\* ------------------------------------------------------------ scheduleJob
NewJob(maxRetries, webhookUrl) ==
  [status |-> "pending", retryCount |-> 0, maxRetries |-> maxRetries,
   sessionId |-> NoId, startedAt |-> NoTime, completedAt |-> NoTime,
   result |-> "none", error |-> NoError, webhookUrl |-> webhookUrl,
   cronJobId |-> NoId]

\* executeJob invocations for job j in a bag of invocations.
ExecuteJobsIn(bag, j) ==
  LET ts == {t \in BagToSet(bag) : t.fn = "executeJob" /\ t.job = j}
      RECURSIVE Sum(_)
      Sum(S) == IF S = {} THEN 0
                ELSE LET t == CHOOSE x \in S : TRUE
                     IN CopiesIn(t, bag) + Sum(S \ {t})
  IN Sum(ts)

NewJobLog ==
  [fails |-> 0, cancels |-> 0, cancelError |-> "", execs |-> 1,
   occurrence |-> NoTime]

\* The default that puts a retry budget where none was asked for.
MaxRetriesOrOne(maxRetries) ==
  IF maxRetries = <<>> THEN 1 ELSE maxRetries[1]

\* args.maxRetries ?? 0: maxRetries is <<>> when not given, <<value>> when
\* given.
MaxRetriesOrDefault(maxRetries) ==
  IF maxRetries = <<>> THEN 0 ELSE maxRetries[1]

ScheduleJob(maxRetries, webhookUrl) ==
  /\ jobs' = Append(jobs, NewJob(MaxRetriesOrDefault(maxRetries), webhookUrl))
  /\ jobLog' = Append(jobLog, NewJobLog)
  /\ scheduled' = Add(scheduled, Task("executeJob", Len(jobs) + 1, NoId, 0, 0))
  /\ calls' = [calls EXCEPT !.scheduleJob = Append(@, maxRetries)]
  /\ UNCHANGED <<now, sessions, execs, cleanups, watchdogs, callbacks,
                 sessLog>>
  /\ UNCHANGED <<webhookVars, cronVars>>

\* ---------------------------------------------------------------- failJob
\* The retry test with the budget taken one too wide.
ShouldRetryInclusive(job) == job.retryCount <= job.maxRetries

ShouldRetry(job) == job.retryCount < job.maxRetries

BackoffSeconds(job) == Pow2(job.retryCount)

\* The patch that stamps completedAt on a retry as well.
FailJobPatchStampsRetry(job, error) ==
  IF ShouldRetry(job)
    THEN [job EXCEPT !.status = "pending", !.retryCount = job.retryCount + 1,
                     !.error = error, !.completedAt = now]
    ELSE [job EXCEPT !.status = "failed", !.error = error,
                     !.completedAt = now]

FailJobPatch(job, error) ==
  IF ShouldRetry(job)
    THEN [job EXCEPT !.status = "pending", !.retryCount = job.retryCount + 1,
                     !.error = error]
    ELSE [job EXCEPT !.status = "failed", !.error = error,
                     !.completedAt = now]

CleanupTasks(job) ==
  IF job.sessionId # NoId
    THEN SetToBag({Task("cleanupSession", NoId, job.sessionId, 1, 0)})
    ELSE EmptyBag

WebhookTasks(j, job) ==
  IF job.webhookUrl
    THEN SetToBag({Task("sendWebhook", j, NoId, 1, 0)})
    ELSE EmptyBag

\* The scheduling that re-runs the executor on the last failure as well.
FailJobTasksAlwaysRerun(j, job) ==
  IF ShouldRetry(job)
    THEN CleanupTasks(job)
           (+) SetToBag({Task("executeJob", j, NoId, 0, BackoffSeconds(job))})
    ELSE WebhookTasks(j, job) (+) CleanupTasks(job)
           (+) SetToBag({Task("executeJob", j, NoId, 0, BackoffSeconds(job))})

FailJobTasks(j, job) ==
  IF ShouldRetry(job)
    THEN CleanupTasks(job)
           (+) SetToBag({Task("executeJob", j, NoId, 0, BackoffSeconds(job))})
    ELSE WebhookTasks(j, job) (+) CleanupTasks(job)

\* The mutation; `pending` is the scheduler's bag it adds to.
FailJobMutation(j, error, pending) ==
  /\ jobs' = [jobs EXCEPT ![j] = FailJobPatch(jobs[j], error)]
  /\ scheduled' = pending (+) FailJobTasks(j, jobs[j])
  /\ jobLog' = [jobLog EXCEPT
                  ![j].fails = @ + 1,
                  ![j].execs = @ + ExecuteJobsIn(FailJobTasks(j, jobs[j]), j)]

\* A user action in flight makes one more report (its contract is one
\* report, which nothing enforces).
CallbackReports(c) ==
  /\ BagIn(c, callbacks) /\ c.reports < MaxReportsPerAction
  /\ calls' = [calls EXCEPT !.reports = @ + 1]
  /\ callbacks' = Add(Remove(callbacks, c), [c EXCEPT !.reports = @ + 1])

FailJob(c) ==
  /\ CallbackReports(c)
  /\ FailJobMutation(c.job, UserError, scheduled)
  /\ UNCHANGED <<now, sessions, execs, cleanups, watchdogs, sessLog>>
  /\ UNCHANGED <<webhookVars, cronVars>>

\* ------------------------------------------------------------ completeJob
CompleteJobPatch(job) ==
  [job EXCEPT !.status = "completed", !.result = "ok", !.completedAt = now]

CompleteJobTasks(j, job) == WebhookTasks(j, job) (+) CleanupTasks(job)

CompleteJob(c) ==
  /\ CallbackReports(c)
  /\ jobs' = [jobs EXCEPT ![c.job] = CompleteJobPatch(jobs[c.job])]
  /\ scheduled' = scheduled (+) CompleteJobTasks(c.job, jobs[c.job])
  /\ UNCHANGED <<now, sessions, execs, cleanups, watchdogs, jobLog, sessLog>>
  /\ UNCHANGED <<webhookVars, cronVars>>

\* -------------------------------------------------------------- cancelJob
\* The rejection test without its second status.
CancelRejectedCompletedOnly(job) == job.status = "completed"

CancelRejected(job) == job.status = "completed" \/ job.status = "cancelled"

CancelJobPatch(job) ==
  [job EXCEPT !.status = "cancelled", !.completedAt = now]

CancelJob(j) ==
  /\ calls' = [calls EXCEPT !.cancels = @ + 1]
  /\ IF CancelRejected(jobs[j])
       THEN /\ jobLog' = [jobLog EXCEPT
                 ![j].cancels = @ + 1,
                 ![j].cancelError = "Job already " \o jobs[j].status]
            /\ UNCHANGED <<jobs, scheduled>>
       ELSE /\ jobs' = [jobs EXCEPT ![j] = CancelJobPatch(jobs[j])]
            /\ scheduled' = scheduled (+) CleanupTasks(jobs[j])
            /\ jobLog' = [jobLog EXCEPT ![j].cancels = @ + 1,
                                        ![j].cancelError = ""]
  /\ UNCHANGED <<now, sessions, execs, cleanups, watchdogs, callbacks,
                 sessLog>>
  /\ UNCHANGED <<webhookVars, cronVars>>

\* ------------------------------------------------------------ linkSession
\* The patch that links the first session record whatever it is given.
LinkSessionPatchFirstSession(job, sessionId) ==
  [job EXCEPT !.sessionId = 1, !.status = "running", !.startedAt = now]

LinkSessionPatch(job, sessionId) ==
  [job EXCEPT !.sessionId = sessionId, !.status = "running",
              !.startedAt = now]

\* ------------------------------------------------------------- executeJob
NewSession(status) ==
  [status |-> status, cleanupAttempts |-> 0, cleanupStatus |-> "none",
   cleanupError |-> "none", cleanupCompletedAt |-> NoTime,
   endedAt |-> NoTime]

Exec(j, s, pc, error) == [job |-> j, sess |-> s, pc |-> pc, error |-> error]

\* getJobForExecution, which throws for a job without a record, then
\* createSession: the provider call throws, or returns a session whose
\* record insertSession stores.
ExecCreate(t, maxSessions) ==
  /\ BagIn(t, scheduled) /\ t.fn = "executeJob"
  /\ scheduled' = Remove(scheduled, t)
  /\ \/ /\ t.job \notin JobIds
        /\ execs' = Add(execs, Exec(t.job, NoId, "fail", NotFoundError))
        /\ UNCHANGED <<sessions, sessLog>>
     \/ /\ t.job \in JobIds
        /\ execs' = Add(execs, Exec(t.job, NoId, "fail", CreateError))
        /\ UNCHANGED <<sessions, sessLog>>
     \/ /\ t.job \in JobIds
        /\ Len(sessions) < maxSessions
        /\ \E st \in CreateStatuses :
             /\ sessions' = Append(sessions, NewSession(st))
             /\ sessLog' = Append(sessLog,
                  [job |-> t.job, created |-> st, releases |-> 0,
                   skips |-> 0, linkedAt |-> NoTime])
        /\ execs' = Add(execs, Exec(t.job, Len(sessions) + 1, "link", NoError))
  /\ UNCHANGED <<now, jobs, cleanups, watchdogs, callbacks, jobLog, calls>>
  /\ UNCHANGED <<webhookVars, cronVars>>

\* linkSession, then scheduler.runAfter(0, job.userAction, ...), which
\* schedules the user action or throws (the reference does not resolve) and
\* passes control to the catch.
ExecLink(e) ==
  /\ BagIn(e, execs) /\ e.pc = "link"
  /\ jobs' = [jobs EXCEPT ![e.job] = LinkSessionPatch(jobs[e.job], e.sess)]
  /\ \/ /\ scheduled' = Add(scheduled, Task("userAction", e.job, e.sess, 0, 0))
        /\ execs' = Remove(execs, e)
     \/ /\ execs' = Add(Remove(execs, e),
                        [e EXCEPT !.pc = "fail", !.error = DispatchError])
        /\ UNCHANGED scheduled
  /\ sessLog' = [sessLog EXCEPT ![e.sess].linkedAt = now]
  /\ UNCHANGED <<now, sessions, cleanups, watchdogs, callbacks, jobLog,
                 calls>>
  /\ UNCHANGED <<webhookVars, cronVars>>

\* The catch that reports a message of its own.
CaughtMessageReplaced(e) == UserError

\* error.message of the error the catch received.
CaughtMessage(e) == e.error

\* The catch: failJob with the error's message.  For a job without a
\* record failJob throws 'Job not found' in its turn, out of the catch and
\* out of the handler.
ExecFail(e) ==
  /\ BagIn(e, execs) /\ e.pc = "fail"
  /\ execs' = Remove(execs, e)
  /\ IF e.job \in JobIds
       THEN /\ FailJobMutation(e.job, CaughtMessage(e), scheduled)
            /\ UNCHANGED calls
       ELSE /\ calls' = [calls EXCEPT !.escaped = @ + 1]
            /\ UNCHANGED <<jobs, scheduled, jobLog>>
  /\ UNCHANGED <<now, sessions, cleanups, watchdogs, callbacks, sessLog>>
  /\ UNCHANGED <<webhookVars, cronVars>>

\* The scheduler runs executeJob for a job id whose record is gone (deleted
\* out of band after the invocation was scheduled).
ExecuteJobOrphan(jobId) ==
  /\ jobId \notin JobIds
  /\ calls' = [calls EXCEPT !.orphans = @ + 1]
  /\ scheduled' = Add(scheduled, Task("executeJob", jobId, NoId, 0, 0))
  /\ UNCHANGED <<now, jobs, sessions, execs, cleanups, watchdogs, callbacks,
                 jobLog, sessLog>>
  /\ UNCHANGED <<webhookVars, cronVars>>

\* The user's action starts; it reports through completeJob / failJob.
RunUserAction(t) ==
  /\ BagIn(t, scheduled) /\ t.fn = "userAction"
  /\ scheduled' = Remove(scheduled, t)
  /\ callbacks' = Add(callbacks, [job |-> t.job, reports |-> 0])
  /\ UNCHANGED <<now, jobs, sessions, execs, cleanups, watchdogs, jobLog,
                 sessLog, calls>>
  /\ UNCHANGED <<webhookVars, cronVars>>

\* --------------------------------------------------------- cleanupSession
IncrementCleanupAttemptPatch(session, attemptNumber) ==
  [session EXCEPT !.cleanupAttempts = attemptNumber,
                  !.cleanupStatus = "pending"]

MarkCleanupSuccessPatch(session, browserbaseStatus) ==
  [session EXCEPT
     !.status = IF browserbaseStatus = "none" THEN "COMPLETED"
                                              ELSE browserbaseStatus,
     !.cleanupStatus = "success",
     !.cleanupCompletedAt = now,
     !.endedAt = now]

RecordCleanupErrorPatch(session) ==
  [session EXCEPT !.cleanupError = "release"]

MarkCleanupFailedPatch(session) ==
  [session EXCEPT !.cleanupStatus = "failed", !.cleanupError = "exhausted"]

\* The skip test that never skips.
AlreadyCleanedUnchecked(session) == FALSE

AlreadyCleaned(session) == session.cleanupStatus = "success"

AlreadyClosed(session) ==
  session.status = "COMPLETED" \/ session.status = "TIMED_OUT"

MayRetryCleanup(attemptNumber) == attemptNumber < MAX_ATTEMPTS

CleanupBackoffSeconds(attemptNumber) == Pow2(attemptNumber)

Cleanup(s, attempt, pc) == [sess |-> s, attempt |-> attempt, pc |-> pc]

\* What the invocation does after getSession: nothing, markCleanupSuccess
\* at once, or an attempt.
CleanupEntry(session, t) ==
  IF AlreadyCleaned(session) THEN EmptyBag
  ELSE IF AlreadyClosed(session)
    THEN SetToBag({Cleanup(t.sess, t.attempt, "markClosed")})
    ELSE SetToBag({Cleanup(t.sess, t.attempt, "increment")})

CleanupStart(t) ==
  /\ BagIn(t, scheduled) /\ t.fn = "cleanupSession"
  /\ scheduled' = Remove(scheduled, t)
  /\ cleanups' = cleanups (+) CleanupEntry(sessions[t.sess], t)
  /\ sessLog' = [sessLog EXCEPT ![t.sess].skips =
                   IF AlreadyCleaned(sessions[t.sess]) THEN @ + 1 ELSE @]
  /\ UNCHANGED <<now, jobs, sessions, execs, watchdogs, callbacks, jobLog,
                 calls>>
  /\ UNCHANGED <<webhookVars, cronVars>>

\* The provider had closed the session: markCleanupSuccess without a status.
CleanupMarkClosed(c) ==
  /\ BagIn(c, cleanups) /\ c.pc = "markClosed"
  /\ sessions' = [sessions EXCEPT
                    ![c.sess] = MarkCleanupSuccessPatch(@, "none")]
  /\ cleanups' = Remove(cleanups, c)
  /\ UNCHANGED <<now, jobs, scheduled, execs, watchdogs, callbacks, jobLog,
                 sessLog, calls>>
  /\ UNCHANGED <<webhookVars, cronVars>>

CleanupIncrement(c) ==
  /\ BagIn(c, cleanups) /\ c.pc = "increment"
  /\ sessions' = [sessions EXCEPT
                    ![c.sess] = IncrementCleanupAttemptPatch(@, c.attempt)]
  /\ cleanups' = Add(Remove(cleanups, c), [c EXCEPT !.pc = "release"])
  /\ UNCHANGED <<now, jobs, scheduled, execs, watchdogs, callbacks, jobLog,
                 sessLog, calls>>
  /\ UNCHANGED <<webhookVars, cronVars>>

\* The provider's release call returns a status (or none) and
\* markCleanupSuccess stores it; or it throws, recordCleanupError runs and
\* the next attempt is scheduled when one is left.
CleanupRelease(c) ==
  /\ BagIn(c, cleanups) /\ c.pc = "release"
  /\ sessLog' = [sessLog EXCEPT ![c.sess].releases = @ + 1]
  /\ \/ /\ \E st \in ReleaseStatuses :
             sessions' = [sessions EXCEPT
                            ![c.sess] = MarkCleanupSuccessPatch(@, st)]
        /\ cleanups' = Remove(cleanups, c)
        /\ UNCHANGED scheduled
     \/ /\ sessions' = [sessions EXCEPT
                          ![c.sess] = RecordCleanupErrorPatch(@)]
        /\ IF MayRetryCleanup(c.attempt)
             THEN /\ scheduled' = Add(scheduled,
                       Task("cleanupSession", NoId, c.sess, c.attempt + 1,
                            CleanupBackoffSeconds(c.attempt)))
                  /\ cleanups' = Remove(cleanups, c)
             ELSE /\ cleanups' = Add(Remove(cleanups, c),
                                     [c EXCEPT !.pc = "markFailed"])
                  /\ UNCHANGED scheduled
  /\ UNCHANGED <<now, jobs, execs, watchdogs, callbacks, jobLog, calls>>
  /\ UNCHANGED <<webhookVars, cronVars>>

\* The last attempt failed: markCleanupFailed.
CleanupMarkFailed(c) ==
  /\ BagIn(c, cleanups) /\ c.pc = "markFailed"
  /\ sessions' = [sessions EXCEPT ![c.sess] = MarkCleanupFailedPatch(@)]
  /\ cleanups' = Remove(cleanups, c)
  /\ UNCHANGED <<now, jobs, scheduled, execs, watchdogs, callbacks, jobLog,
                 sessLog, calls>>
  /\ UNCHANGED <<webhookVars, cronVars>>

\* --------------------------------------------------------------- watchdog
\* The test that lets a timeout that has just elapsed pass.
TimedOutLate(startedAt, timeout) == now - startedAt > timeout

TimedOut(startedAt, timeout) == now - startedAt >= timeout

\* The watchdog's test without the status.
WatchdogActsAnyStatus(job, startedAt, timeout) == TimedOut(startedAt, timeout)

WatchdogActs(job, startedAt, timeout) ==
  job.status = "running" /\ TimedOut(startedAt, timeout)

\* The watchdog is invoked with (jobId, startedAt, timeout); it reads the
\* job's status and returns unless the job is running and timed out.
\* Nothing in the component schedules it: it is invoked from outside.
WatchdogCheck(j, startedAt, timeout) ==
  /\ calls' = [calls EXCEPT !.watchdogs = @ + 1]
  /\ watchdogs' = IF WatchdogActs(jobs[j], startedAt, timeout)
                    THEN Add(watchdogs, [job |-> j, timeout |-> timeout])
                    ELSE watchdogs
  /\ UNCHANGED <<now, jobs, sessions, scheduled, execs, cleanups, callbacks,
                 jobLog, sessLog>>
  /\ UNCHANGED <<webhookVars, cronVars>>

WatchdogFail(w) ==
  /\ BagIn(w, watchdogs)
  /\ watchdogs' = Remove(watchdogs, w)
  /\ FailJobMutation(w.job, TimeoutError(w.timeout), scheduled)
  /\ UNCHANGED <<now, sessions, execs, cleanups, callbacks, sessLog, calls>>
  /\ UNCHANGED <<webhookVars, cronVars>>

\* ------------------------------------------------------------ sendWebhook
WebhookEvent(status) ==
  IF status = "completed" THEN "job.completed" ELSE "job.failed"

Send(j, attempt, pc, status, delivery) ==
  [job |-> j, attempt |-> attempt, pc |-> pc, event |-> WebhookEvent(status),
   status |-> status, delivery |-> delivery]

NewDelivery(e) ==
  [job |-> e.job, attemptNumber |-> e.attempt, status |-> "pending",
   event |-> e.event, jobStatus |-> e.status, statusCode |-> "none",
   error |-> "none"]

\* The insert that writes over the newest record instead.
CreateDeliveryReusingLast(table, record) ==
  IF table = <<>> THEN <<record>> ELSE [table EXCEPT ![Len(table)] = record]

CreateDelivery(table, record) == Append(table, record)

HttpResponses == {"2xx", "non2xx"}   \* response.status, by class

\* The retry test that allows one attempt more.
MayRetryWebhookInclusive(attemptNumber) == attemptNumber <= WebhookMaxAttempts

MayRetryWebhook(attemptNumber) == attemptNumber < WebhookMaxAttempts

WebhookBackoffSeconds(attemptNumber) == Pow2(attemptNumber)

\* getJobStatus: the payload is built from the job as read here.
SendRead(t) ==
  /\ BagIn(t, scheduled) /\ t.fn = "sendWebhook"
  /\ scheduled' = Remove(scheduled, t)
  /\ sends' = Add(sends, Send(t.job, t.attempt, "create",
                              jobs[t.job].status, NoId))
  /\ UNCHANGED <<now, jobs, sessions, execs, cleanups, watchdogs, callbacks,
                 jobLog, sessLog, calls, deliveries, cronVars>>

SendCreate(e) ==
  /\ BagIn(e, sends) /\ e.pc = "create"
  /\ deliveries' = CreateDelivery(deliveries, NewDelivery(e))
  /\ sends' = Add(Remove(sends, e),
                  [e EXCEPT !.pc = "fetch", !.delivery = Len(deliveries')])
  /\ UNCHANGED <<now, jobs, sessions, scheduled, execs, cleanups, watchdogs,
                 callbacks, jobLog, sessLog, calls, cronVars>>

\* The delivery step that also marks the job failed when fetch throws.
SendFetchFailsJob(e) ==
  /\ BagIn(e, sends) /\ e.pc = "fetch"
  /\ sends' = Remove(sends, e)
  /\ deliveries' = [deliveries EXCEPT
       ![e.delivery] = [@ EXCEPT !.status = "failed", !.error = "network"]]
  /\ jobs' = [jobs EXCEPT ![e.job].status = "failed"]
  /\ UNCHANGED <<now, sessions, scheduled, execs, cleanups, watchdogs,
                 callbacks, jobLog, sessLog, calls, cronVars>>

\* fetch answers, whatever the status, and updateDelivery records "sent";
\* or fetch throws, updateDelivery records "failed" and the next attempt is
\* scheduled when one is left.
SendFetch(e) ==
  /\ BagIn(e, sends) /\ e.pc = "fetch"
  /\ sends' = Remove(sends, e)
  /\ \/ /\ \E r \in HttpResponses :
             deliveries' = [deliveries EXCEPT
               ![e.delivery] = [@ EXCEPT !.status = "sent", !.statusCode = r]]
        /\ UNCHANGED scheduled
     \/ /\ deliveries' = [deliveries EXCEPT
             ![e.delivery] = [@ EXCEPT !.status = "failed",
                                       !.error = "network"]]
        /\ scheduled' =
             IF MayRetryWebhook(e.attempt)
               THEN Add(scheduled,
                        Task("sendWebhook", e.job, NoId, e.attempt + 1,
                             WebhookBackoffSeconds(e.attempt)))
               ELSE scheduled
  /\ UNCHANGED <<now, jobs, sessions, execs, cleanups, watchdogs, callbacks,
                 jobLog, sessLog, calls, cronVars>>

\* ------------------------------------------------------------- cron jobs
CronNames == {"a", "b"}
CronExpressions == {"every 1", "every 2", "bad"}
ValidCronExpressions == {"every 1", "every 2"}
Absent == "absent"    \* an optional argument that is not given

\* The validation that accepts every expression.
AnyCronExpression(cronExpression) == TRUE

\* CronExpressionParser.parse returns (TRUE) or throws (FALSE).
ValidCronExpression(cronExpression) ==
  cronExpression \in ValidCronExpressions

CronPeriod(cronExpression) == IF cronExpression = "every 2" THEN 2 ELSE 1

\* The first occurrence at or after afterTimestamp.
CalculateNextRunInclusive(cronExpression, afterTimestamp) ==
  IF afterTimestamp % CronPeriod(cronExpression) = 0
    THEN afterTimestamp
    ELSE afterTimestamp + CronPeriod(cronExpression)
           - (afterTimestamp % CronPeriod(cronExpression))

\* calculateNextRun: the first occurrence after afterTimestamp.
CalculateNextRun(cronExpression, afterTimestamp) ==
  afterTimestamp + CronPeriod(cronExpression)
    - (afterTimestamp % CronPeriod(cronExpression))

CronIds == 1..Len(crons)

\* ctx.db.get: a deleted id has no record.
CronExists(id) == id \in CronIds /\ crons[id].exists

NoCronCall ==
  [calls |-> 0, op |-> "none", id |-> NoId, name |-> Absent,
   cronExpression |-> Absent, error |-> "none"]

CronCall(op, id, name, cronExpression, error) ==
  [calls |-> cronLog.calls + 1, op |-> op, id |-> id, name |-> name,
   cronExpression |-> cronExpression, error |-> error]

NewCronJob(name, cronExpression) ==
  [exists |-> TRUE, name |-> name, cronExpression |-> cronExpression,
   enabled |-> TRUE, lastRunAt |-> NoTime,
   nextRunAt |-> CalculateNextRun(cronExpression, now), runCount |-> 0]

CreateCronJobError(name, cronExpression) ==
  IF ~ValidCronExpression(cronExpression) THEN "Invalid cron expression"
  ELSE IF \E id \in CronIds : crons[id].exists /\ crons[id].name = name
    THEN "already exists"
  ELSE "none"

CreateCronJob(name, cronExpression) ==
  /\ cronLog' = CronCall("create", NoId, name, cronExpression,
                         CreateCronJobError(name, cronExpression))
  /\ crons' = IF CreateCronJobError(name, cronExpression) = "none"
                THEN Append(crons, NewCronJob(name, cronExpression))
                ELSE crons
  /\ UNCHANGED <<now, jobs, sessions, scheduled, execs, cleanups, watchdogs,
                 callbacks, jobLog, sessLog, calls, webhookVars, tickVars>>

UpdateCronJobError(id, cronExpression) ==
  IF ~CronExists(id) THEN "Cron job not found"
  ELSE IF cronExpression # Absent /\ ~ValidCronExpression(cronExpression)
    THEN "Invalid cron expression"
  ELSE "none"

\* enabled is <<>> when not given, <<value>> when given.
UpdateCronJobPatch(cron, name, cronExpression, enabled) ==
  [cron EXCEPT
     !.name = IF name # Absent THEN name ELSE @,
     !.enabled = IF enabled # <<>> THEN enabled[1] ELSE @,
     !.cronExpression = IF cronExpression # Absent THEN cronExpression ELSE @,
     !.nextRunAt = IF cronExpression # Absent
                     THEN CalculateNextRun(cronExpression, now) ELSE @]

UpdateCronJob(id, name, cronExpression, enabled) ==
  /\ cronLog' = CronCall("update", id, name, cronExpression,
                         UpdateCronJobError(id, cronExpression))
  /\ crons' = IF UpdateCronJobError(id, cronExpression) = "none"
                THEN [crons EXCEPT
                        ![id] = UpdateCronJobPatch(@, name, cronExpression,
                                                   enabled)]
                ELSE crons
  /\ UNCHANGED <<now, jobs, sessions, scheduled, execs, cleanups, watchdogs,
                 callbacks, jobLog, sessLog, calls, webhookVars, tickVars>>

DeleteCronJob(id) ==
  /\ cronLog' = CronCall("delete", id, Absent, Absent,
                         IF CronExists(id) THEN "none"
                                           ELSE "Cron job not found")
  /\ crons' = IF CronExists(id) THEN [crons EXCEPT ![id].exists = FALSE]
                                ELSE crons
  /\ UNCHANGED <<now, jobs, sessions, scheduled, execs, cleanups, watchdogs,
                 callbacks, jobLog, sessLog, calls, webhookVars, tickVars>>

\* getCronJob: <<>> for null, else the document's fields.
GetCronJob(id) ==
  IF ~CronExists(id) THEN <<>>
  ELSE <<[id |-> id, name |-> crons[id].name,
          cronExpression |-> crons[id].cronExpression,
          enabled |-> crons[id].enabled, lastRunAt |-> crons[id].lastRunAt,
          nextRunAt |-> crons[id].nextRunAt,
          runCount |-> crons[id].runCount]>>

\* ---------------------------------------------------- processDueCronJobs
DueLimit == 100    \* getDueCronJobs reads at most this many definitions

IsDue(id) ==
  crons[id].exists /\ crons[id].enabled /\ crons[id].nextRunAt <= now

\* The order of index by_next_run among the enabled definitions.
IndexBefore(a, b) ==
  \/ crons[a].nextRunAt < crons[b].nextRunAt
  \/ crons[a].nextRunAt = crons[b].nextRunAt /\ a < b

\* ids in index order: the k-th has k - 1 ids before it.
InIndexOrder(ids) ==
  [k \in 1..Cardinality(ids) |->
     CHOOSE a \in ids : Cardinality({b \in ids : IndexBefore(b, a)}) = k - 1]

Take(seq, n) == SubSeq(seq, 1, IF Len(seq) < n THEN Len(seq) ELSE n)

\* The ids of the documents getDueCronJobs returns.
GetDueCronJobs == Take(InIndexOrder({id \in CronIds : IsDue(id)}), DueLimit)

NoTicks == [started |-> 0, finished |-> 0, due |-> <<>>, log |-> <<>>]

\* A processDueCronJobs invocation: the documents read, the loop's position,
\* the next mutation of the iteration and the console lines written.
CronRun(due, i, pc, log) == [due |-> due, i |-> i, pc |-> pc, log |-> log]

\* The loop moves on to the next document.
NextIteration(run, line) ==
  [run EXCEPT !.i = @ + 1, !.pc = "spawn", !.log = Append(@, line)]

\* The catch block that leaves the loop.
CaughtLeavesLoop(run) ==
  [run EXCEPT !.i = Len(run.due) + 1, !.pc = "spawn",
              !.log = Append(@, "failed")]

\* The catch block: the error is logged and the loop goes on.
Caught(run) == NextIteration(run, "failed")

\* The invocation goes on with `after`, or returns when the loop is over.
Continue(run, after) ==
  IF after.i > Len(after.due)
    THEN /\ cronRuns' = Remove(cronRuns, run)
         /\ ticks' = [ticks EXCEPT !.finished = @ + 1, !.due = after.due,
                                   !.log = after.log]
    ELSE /\ cronRuns' = Add(Remove(cronRuns, run), after)
         /\ UNCHANGED ticks

\* The invocation starts and reads the due definitions.  The platform runs
\* one invocation of an interval cron at a time.
ProcessStart ==
  /\ cronRuns = EmptyBag
  /\ IF GetDueCronJobs = <<>>
       THEN /\ ticks' = [started |-> ticks.started + 1,
                         finished |-> ticks.finished + 1,
                         due |-> <<>>, log |-> <<>>]
            /\ UNCHANGED cronRuns
       ELSE /\ ticks' = [ticks EXCEPT !.started = @ + 1]
            /\ cronRuns' = Add(cronRuns, CronRun(GetDueCronJobs, 1, "spawn",
                                                 <<>>))
  /\ UNCHANGED <<now, jobs, sessions, scheduled, execs, cleanups, watchdogs,
                 callbacks, jobLog, sessLog, calls, webhookVars, crons,
                 cronLog>>

\* The job a cron definition spawns.  Definitions are created without a
\* webhookUrl.
NewCronJobInstance(cronJobId) ==
  [NewJob(0, FALSE) EXCEPT !.cronJobId = cronJobId]

\* The occurrence a spawn serves: the definition's nextRunAt when it has
\* passed, none when the definition is not due as the spawn runs.
DueOccurrence(cron) ==
  IF cron.nextRunAt <= now THEN cron.nextRunAt ELSE NoTime

\* spawnCronJobInstance, called for the document at the loop's position.
ProcessSpawn(run) ==
  LET id == run.due[run.i]
  IN /\ run.pc = "spawn"
     /\ IF CronExists(id)
          THEN /\ jobs' = Append(jobs, NewCronJobInstance(id))
               /\ jobLog' = Append(jobLog,
                    [NewJobLog EXCEPT !.occurrence = DueOccurrence(crons[id])])
               /\ scheduled' = Add(scheduled, Task("executeJob", Len(jobs) + 1,
                                                   NoId, 0, 0))
               /\ cronRuns' = Add(Remove(cronRuns, run),
                                  [run EXCEPT !.pc = "update"])
               /\ UNCHANGED ticks
          ELSE /\ Continue(run, Caught(run))
               /\ UNCHANGED <<jobs, jobLog, scheduled>>
     /\ UNCHANGED <<now, sessions, execs, cleanups, watchdogs, callbacks,
                    sessLog, calls, webhookVars, crons, cronLog>>

\* The patch that leaves runCount as it was.
UpdateCronJobAfterRunKeepsCount(cron) ==
  [cron EXCEPT !.lastRunAt = now,
               !.nextRunAt = CalculateNextRun(cron.cronExpression, now)]

UpdateCronJobAfterRunPatch(cron) ==
  [cron EXCEPT !.lastRunAt = now,
               !.nextRunAt = CalculateNextRun(cron.cronExpression, now),
               !.runCount = @ + 1]

\* updateCronJobAfterRun, called after the spawn of the same iteration.
ProcessUpdate(run) ==
  LET id == run.due[run.i]
  IN /\ run.pc = "update"
     /\ crons' = IF CronExists(id)
                   THEN [crons EXCEPT ![id] = UpdateCronJobAfterRunPatch(@)]
                   ELSE crons
     /\ Continue(run, NextIteration(run, "spawned"))
     /\ UNCHANGED <<now, jobs, sessions, scheduled, execs, cleanups,
                    watchdogs, callbacks, jobLog, sessLog, calls, webhookVars,
                    cronLog>>

\* The updateCronJobAfterRun call does not go through (the mutation is
\* rejected by the platform): runMutation throws, the catch logs it and the
\* definition keeps its nextRunAt.
ProcessUpdateFails(run) ==
  /\ run.pc = "update"
  /\ calls' = [calls EXCEPT !.updateErrors = @ + 1]
  /\ Continue(run, Caught(run))
  /\ UNCHANGED <<now, jobs, sessions, scheduled, execs, cleanups, watchdogs,
                 callbacks, jobLog, sessLog, webhookVars, crons, cronLog>>

\* ------------------------------------------------------------------ clock
Tick ==
  /\ now' = now + 1
  /\ UNCHANGED <<jobs, sessions, scheduled, execs, cleanups, watchdogs,
                 callbacks, jobLog, sessLog, calls>>
  /\ UNCHANGED <<webhookVars, cronVars>>

\* ---------------------------------------------------------- specification
Init ==
  /\ now = 0
  /\ jobs = <<>>
  /\ sessions = <<>>
  /\ scheduled = EmptyBag
  /\ execs = EmptyBag
  /\ cleanups = EmptyBag
  /\ watchdogs = EmptyBag
  /\ callbacks = EmptyBag
  /\ jobLog = <<>>
  /\ sessLog = <<>>
  /\ calls = [reports |-> 0, cancels |-> 0, watchdogs |-> 0,
              scheduleJob |-> <<>>, orphans |-> 0, escaped |-> 0,
              updateErrors |-> 0]
  /\ deliveries = <<>>
  /\ sends = EmptyBag
  /\ crons = <<>>
  /\ cronLog = NoCronCall
  /\ cronRuns = EmptyBag
  /\ ticks = NoTicks

\* Steps of executeJob, user action and watchdog invocations.
JobSteps(maxSessions) ==
  \/ \E t \in BagToSet(scheduled) : ExecCreate(t, maxSessions)
  \/ \E e \in BagToSet(execs) : ExecLink(e)
  \/ \E e \in BagToSet(execs) : ExecFail(e)
  \/ \E t \in BagToSet(scheduled) : RunUserAction(t)
  \/ \E w \in BagToSet(watchdogs) : WatchdogFail(w)

\* Steps of cleanupSession invocations.
CleanupSteps ==
  \/ \E t \in BagToSet(scheduled) : CleanupStart(t)
  \/ \E c \in BagToSet(cleanups) : CleanupMarkClosed(c)
  \/ \E c \in BagToSet(cleanups) : CleanupIncrement(c)
  \/ \E c \in BagToSet(cleanups) : CleanupRelease(c)
  \/ \E c \in BagToSet(cleanups) : CleanupMarkFailed(c)

\* Steps of sendWebhook invocations.
WebhookSteps ==
  \/ \E t \in BagToSet(scheduled) : SendRead(t)
  \/ \E e \in BagToSet(sends) : SendCreate(e)
  \/ \E e \in BagToSet(sends) : SendFetch(e)

\* Calls from outside the component and the clock, within the given bounds.
Environment(maxJobs, maxRetriesArg, maxReports, maxCancels, maxWatchdogs, maxTime) ==
  \/ /\ Len(jobs) < maxJobs
     /\ \E m \in 0..maxRetriesArg, w \in BOOLEAN : ScheduleJob(<<m>>, w)
  \/ /\ calls.reports < maxReports
     /\ \E c \in BagToSet(callbacks) : FailJob(c)
  \/ /\ calls.reports < maxReports
     /\ \E c \in BagToSet(callbacks) : CompleteJob(c)
  \/ /\ calls.cancels < maxCancels
     /\ \E j \in JobIds : CancelJob(j)
  \/ /\ calls.watchdogs < maxWatchdogs
     /\ \E j \in JobIds, st \in 0..now, to \in JobTimeouts :
          WatchdogCheck(j, st, to)
  \/ /\ now < maxTime
     /\ Tick

Next ==
  \/ JobSteps(MaxSessions)
  \/ CleanupSteps
  \/ Environment(MaxJobs, MaxRetriesArg, MaxReports, MaxCancels, MaxWatchdogs,
                 MaxTime)

Spec == Init /\ [][Next]_vars

NextJobs ==
  \/ JobSteps(JobsMaxSessions)
  \/ Environment(JobsMaxJobs, JobsMaxRetriesArg, JobsMaxReports,
                 JobsMaxCancels, JobsMaxWatchdogs, JobsMaxTime)

SpecJobs == Init /\ [][NextJobs]_vars

\* Jobs that run to a terminal status, with the webhooks that follow; the
\* clock and the watchdog are left out.
NextWebhook ==
  \/ /\ Len(jobs) < HookMaxJobs
     /\ \E m \in 0..HookMaxRetriesArg, w \in BOOLEAN : ScheduleJob(<<m>>, w)
  \/ \E t \in BagToSet(scheduled) : ExecCreate(t, HookMaxSessions)
  \/ \E e \in BagToSet(execs) : ExecLink(e)
  \/ \E e \in BagToSet(execs) : ExecFail(e)
  \/ \E t \in BagToSet(scheduled) : RunUserAction(t)
  \/ /\ calls.reports < HookMaxReports
     /\ \E c \in BagToSet(callbacks) : FailJob(c)
  \/ /\ calls.reports < HookMaxReports
     /\ \E c \in BagToSet(callbacks) : CompleteJob(c)
  \/ /\ calls.cancels < HookMaxCancels
     /\ \E j \in JobIds : CancelJob(j)
  \/ WebhookSteps

SpecWebhook == Init /\ [][NextWebhook]_vars

\* The cron definition mutations and the clock.
NextCron ==
  \/ /\ cronLog.calls < CronMaxCalls /\ Len(crons) < CronMaxCrons
     /\ \E name \in CronNames, e \in CronExpressions : CreateCronJob(name, e)
  \/ /\ cronLog.calls < CronMaxCalls
     /\ \E id \in CronIds, name \in CronNames \cup {Absent},
           e \in CronExpressions \cup {Absent},
           enabled \in {<<>>, <<TRUE>>, <<FALSE>>} :
          UpdateCronJob(id, name, e, enabled)
  \/ /\ cronLog.calls < CronMaxCalls
     /\ \E id \in CronIds : DeleteCronJob(id)
  \/ /\ now < CronMaxTime
     /\ Tick

SpecCron == Init /\ [][NextCron]_vars

\* Two jobs side by side, scheduled with or without a maxRetries argument,
\* with their executors and user actions; cleanups and webhooks stay with
\* the scheduler.
NextPair ==
  \/ /\ Len(jobs) < PairMaxJobs
     /\ \E m \in {<<>>} \cup {<<k>> : k \in 0..PairMaxRetriesArg},
           w \in BOOLEAN : ScheduleJob(m, w)
  \/ \E t \in BagToSet(scheduled) : ExecCreate(t, PairMaxSessions)
  \/ \E e \in BagToSet(execs) : ExecLink(e)
  \/ \E e \in BagToSet(execs) : ExecFail(e)
  \/ \E t \in BagToSet(scheduled) : RunUserAction(t)
  \/ /\ calls.reports < PairMaxReports
     /\ \E c \in BagToSet(callbacks) : FailJob(c)
  \/ /\ calls.reports < PairMaxReports
     /\ \E c \in BagToSet(callbacks) : CompleteJob(c)

SpecPair == Init /\ [][NextPair]_vars

\* A job with its executor and user actions, and executeJob invocations for
\* the id after the last one scheduleJob gives out, which has no record.
NextOrphan ==
  \/ /\ Len(jobs) < OrphanMaxJobs
     /\ \E m \in 0..OrphanMaxRetriesArg, w \in BOOLEAN : ScheduleJob(<<m>>, w)
  \/ /\ calls.orphans < OrphanMaxCalls
     /\ ExecuteJobOrphan(OrphanMaxJobs + 1)
  \/ \E t \in BagToSet(scheduled) : ExecCreate(t, OrphanMaxSessions)
  \/ \E e \in BagToSet(execs) : ExecLink(e)
  \/ \E e \in BagToSet(execs) : ExecFail(e)
  \/ \E t \in BagToSet(scheduled) : RunUserAction(t)
  \/ /\ calls.reports < OrphanMaxReports
     /\ \E c \in BagToSet(callbacks) : FailJob(c)
  \/ /\ calls.reports < OrphanMaxReports
     /\ \E c \in BagToSet(callbacks) : CompleteJob(c)

SpecOrphan == Init /\ [][NextOrphan]_vars

\* A job with retries left, its executor runs and its user actions' reports.
NextRetry ==
  \/ /\ Len(jobs) < RetryMaxJobs
     /\ \E m \in 1..RetryMaxRetriesArg, w \in BOOLEAN : ScheduleJob(<<m>>, w)
  \/ \E t \in BagToSet(scheduled) : ExecCreate(t, RetryMaxSessions)
  \/ \E e \in BagToSet(execs) : ExecLink(e)
  \/ \E e \in BagToSet(execs) : ExecFail(e)
  \/ \E t \in BagToSet(scheduled) : RunUserAction(t)
  \/ /\ calls.reports < RetryMaxReports
     /\ \E c \in BagToSet(callbacks) : FailJob(c)
  \/ /\ calls.reports < RetryMaxReports
     /\ \E c \in BagToSet(callbacks) : CompleteJob(c)

SpecRetry == Init /\ [][NextRetry]_vars

\* Steps of processDueCronJobs invocations.
TickSteps ==
  \/ \E run \in BagToSet(cronRuns) : ProcessSpawn(run)
  \/ \E run \in BagToSet(cronRuns) : ProcessUpdate(run)

\* The cron definition mutations, the clock and the periodic invocations of
\* processDueCronJobs; the spawned jobs stay with the scheduler.
NextTick ==
  \/ /\ cronLog.calls < TickMaxCalls /\ Len(crons) < TickMaxCrons
     /\ \E name \in CronNames, e \in CronExpressions : CreateCronJob(name, e)
  \/ /\ cronLog.calls < TickMaxCalls
     /\ \E id \in CronIds, name \in CronNames \cup {Absent},
           e \in CronExpressions \cup {Absent},
           enabled \in {<<>>, <<TRUE>>, <<FALSE>>} :
          UpdateCronJob(id, name, e, enabled)
  \/ /\ cronLog.calls < TickMaxCalls
     /\ \E id \in CronIds : DeleteCronJob(id)
  \/ /\ now < TickMaxTime
     /\ Tick
  \/ /\ ticks.started < TickMaxRuns
     /\ ProcessStart
  \/ TickSteps

SpecTick == Init /\ [][NextTick]_vars

\* Cron definitions created and deleted, the clock, and processDueCronJobs
\* invocations in which an updateCronJobAfterRun call may fail.
NextFlaky ==
  \/ /\ cronLog.calls < FlakyMaxCalls /\ Len(crons) < FlakyMaxCrons
     /\ \E name \in CronNames, e \in CronExpressions : CreateCronJob(name, e)
  \/ /\ cronLog.calls < FlakyMaxCalls
     /\ \E id \in CronIds : DeleteCronJob(id)
  \/ /\ now < FlakyMaxTime
     /\ Tick
  \/ /\ ticks.started < FlakyMaxRuns
     /\ ProcessStart
  \/ TickSteps
  \/ /\ calls.updateErrors < FlakyMaxErrors
     /\ \E run \in BagToSet(cronRuns) : ProcessUpdateFails(run)

SpecFlaky == Init /\ [][NextFlaky]_vars

\* The state after BatchCrons createCronJob calls at time 0, each with a name
\* of its own and a schedule of every minute.
InitBatch ==
  /\ now = 0
  /\ jobs = <<>>
  /\ sessions = <<>>
  /\ scheduled = EmptyBag
  /\ execs = EmptyBag
  /\ cleanups = EmptyBag
  /\ watchdogs = EmptyBag
  /\ callbacks = EmptyBag
  /\ jobLog = <<>>
  /\ sessLog = <<>>
  /\ calls = [reports |-> 0, cancels |-> 0, watchdogs |-> 0,
              scheduleJob |-> <<>>, orphans |-> 0, escaped |-> 0,
              updateErrors |-> 0]
  /\ deliveries = <<>>
  /\ sends = EmptyBag
  /\ crons = [id \in 1..BatchCrons |-> NewCronJob(ToString(id), "every 1")]
  /\ cronLog = [calls |-> BatchCrons, op |-> "create", id |-> NoId,
                name |-> ToString(BatchCrons), cronExpression |-> "every 1",
                error |-> "none"]
  /\ cronRuns = EmptyBag
  /\ ticks = NoTicks

\* The clock and the periodic invocations of processDueCronJobs.
NextBatch ==
  \/ /\ now < BatchMaxTime
     /\ Tick
  \/ /\ ticks.started < BatchMaxRuns
     /\ ProcessStart
  \/ TickSteps

SpecBatch == InitBatch /\ [][NextBatch]_vars

\* Background invocations the scheduler holds are eventually run: every
\* step of an invocation in flight or scheduled is taken if it stays enabled.
FairJobs ==
  /\ SpecJobs
  /\ WF_vars(JobSteps(JobsMaxSessions))

FairSpec ==
  /\ Spec
  /\ WF_vars(JobSteps(MaxSessions))
  /\ WF_vars(CleanupSteps)

\* ------------------------------------------------------------- properties
\* A failJob mutation ran on job j in this step (from a user action, the
\* executor's catch or the watchdog).
FailJobStep(j) == jobLog'[j].fails = jobLog[j].fails + 1

\* A cancelJob call was made on job j in this step.
CancelJobStep(j) == jobLog'[j].cancels = jobLog[j].cancels + 1

\* C1: retryCount never exceeds maxRetries; each of the first maxRetries
\* failure reports of a job leaves it pending with retryCount one higher,
\* and the report after those sets status failed with retryCount still
\* equal to maxRetries.
C1_RetryBudget ==
  /\ [](\A j \in JobIds : jobs[j].retryCount <= jobs[j].maxRetries)
  /\ [][\A j \in JobIds :
          FailJobStep(j) =>
            IF jobLog[j].fails < jobs[j].maxRetries
              THEN /\ jobs'[j].status = "pending"
                   /\ jobs'[j].retryCount = jobs[j].retryCount + 1
                   /\ jobs'[j].retryCount = jobLog'[j].fails
              ELSE /\ jobs'[j].status = "failed"
                   /\ jobs'[j].retryCount = jobs[j].maxRetries]_vars

\* A job with a budget of two retries has failed on its third report.
C1_Witness ==
  \E j \in JobIds :
    /\ jobs[j].maxRetries = 2
    /\ jobLog[j].fails = 3
    /\ jobs[j].status = "failed"
    /\ jobs[j].retryCount = 2

\* C2: once a job's status is completed, failed or cancelled, no later
\* step changes it.
C2_TerminalIsFinal ==
  [][\A j \in JobIds :
       jobs[j].status \in TerminalStatuses =>
         jobs'[j].status = jobs[j].status]_vars

\* C3: a cancelJob call on a completed or cancelled job fails with
\* 'Job already <status>', leaves the job record as it was and schedules
\* nothing.
C3_CancelRejectedIsNoOp ==
  [][\A j \in JobIds :
       (CancelJobStep(j) /\ jobs[j].status \in {"completed", "cancelled"}) =>
         /\ jobLog'[j].cancelError = "Job already " \o jobs[j].status
         /\ jobs'[j] = jobs[j]
         /\ scheduled' = scheduled]_vars

\* cancelJob was rejected on a cancelled job that has a session linked
\* (the case where an accepted cancel would have scheduled a cleanup).
C3_Witness ==
  \E j \in JobIds :
    /\ jobLog[j].cancelError = "Job already cancelled"
    /\ jobs[j].sessionId # NoId

\* C4: a job's status becomes cancelled only in a cancelJob call, and only
\* from pending, queued or running.
C4_CancelOnlyFromActive ==
  [][\A j \in JobIds :
       (jobs'[j].status = "cancelled" /\ jobs[j].status # "cancelled") =>
         /\ CancelJobStep(j)
         /\ jobs[j].status \in {"pending", "queued", "running"}]_vars

\* C5: a job that is running and whose timeout has elapsed eventually
\* leaves the running status (the timeout mechanism fails it), under fair
\* scheduling of the component's background invocations.
C5_RunningJobTimesOut ==
  \A j \in 1..JobsMaxJobs, to \in JobTimeouts :
    (/\ j \in JobIds
     /\ jobs[j].status = "running"
     /\ TimedOut(jobs[j].startedAt, to))
      ~> (j \in JobIds /\ jobs[j].status # "running")

\* C6: once a job is completed, failed or cancelled, every session the
\* executor created for it eventually has cleanupStatus success or failed,
\* under fair scheduling of the component's background invocations.
C6_SessionsEventuallyCleaned ==
  \A s \in 1..MaxSessions :
    (s \in SessionIds /\ jobs[sessLog[s].job].status \in TerminalStatuses)
      ~> (/\ s \in SessionIds
          /\ sessions[s].cleanupStatus \in {"success", "failed"})

\* A cleanupSession invocation reached markCleanupFailed on session s in
\* this step.
MarkCleanupFailedStep(s) ==
  \E c \in BagToSet(cleanups) :
    c.sess = s /\ c.pc = "markFailed" /\ cleanups' = Remove(cleanups, c)

\* C7: a session whose cleanupStatus is failed has status COMPLETED or
\* TIMED_OUT only if that was its status before any cleanup ran on it, and
\* markCleanupFailed leaves the status as it was.
C7_FailedCleanupKeepsStatus ==
  /\ [](\A s \in SessionIds :
          (/\ sessions[s].cleanupStatus = "failed"
           /\ sessions[s].status \in {"COMPLETED", "TIMED_OUT"})
            => sessions[s].status = sessLog[s].created)
  /\ [][\A s \in SessionIds :
          MarkCleanupFailedStep(s) =>
            sessions'[s].status = sessions[s].status]_vars

\* C8: at most MAX_ATTEMPTS release calls are made for a session,
\* cleanupAttempts never exceeds MAX_ATTEMPTS, and once cleanupStatus is
\* failed it stays failed and no cleanupSession invocation for the session
\* is scheduled or in flight.
C8_CleanupBudget ==
  /\ [](\A s \in SessionIds :
          /\ sessLog[s].releases <= MAX_ATTEMPTS
          /\ sessions[s].cleanupAttempts <= MAX_ATTEMPTS
          /\ sessions[s].cleanupStatus = "failed" =>
               /\ \A t \in BagToSet(scheduled) :
                    ~(t.fn = "cleanupSession" /\ t.sess = s)
               /\ \A c \in BagToSet(cleanups) : c.sess # s)
  /\ [][\A s \in SessionIds :
          sessions[s].cleanupStatus = "failed" =>
            sessions'[s].cleanupStatus = "failed"]_vars

\* C9: a session whose cleanupStatus is success never has status RUNNING.
C9_CleanedSessionNotRunning ==
  \A s \in SessionIds :
    sessions[s].cleanupStatus = "success" => sessions[s].status # "RUNNING"

\* A cleanupSession invocation for task t started in this step.
CleanupStartStep(t) ==
  /\ t.fn = "cleanupSession"
  /\ CopiesIn(t, scheduled') < CopiesIn(t, scheduled)

\* C10: a cleanupSession invocation that finds cleanupStatus success
\* changes no field of the session, makes no release call and schedules
\* nothing.
C10_CleanedSessionSkipped ==
  [][\A t \in BagToSet(scheduled) :
       (CleanupStartStep(t) /\ sessions[t.sess].cleanupStatus = "success") =>
         /\ sessions' = sessions
         /\ sessLog'[t.sess].releases = sessLog[t.sess].releases
         /\ cleanups' = cleanups
         /\ scheduled' = Remove(scheduled, t)]_vars

\* A cleanupSession invocation found its session already cleaned.
C10_Witness ==
  \E s \in SessionIds :
    sessLog[s].skips > 0 /\ sessions[s].cleanupStatus = "success"

\* C11: the executeJob re-run that failJob schedules for retry k (k is
\* retryCount after the increment) is delayed by 2^k seconds.
C11_RetryBackoff ==
  [][\A j \in JobIds :
       (FailJobStep(j) /\ jobs'[j].retryCount = jobs[j].retryCount + 1) =>
         \E t \in BagToSet(scheduled') :
           /\ t.fn = "executeJob" /\ t.job = j
           /\ CopiesIn(t, scheduled') > CopiesIn(t, scheduled)
           /\ t.delay = Pow2(jobs'[j].retryCount)]_vars

\* executeJob invocations of job j that have started.
ExecuteJobsStarted(j) == jobLog[j].execs - ExecuteJobsIn(scheduled, j)

\* C12: the number of executeJob invocations scheduled for a job is
\* 1 + retryCount, so at most maxRetries + 1 are scheduled and started.
C12_ExecutionsWithinBudget ==
  \A j \in JobIds :
    /\ jobLog[j].execs = 1 + jobs[j].retryCount
    /\ jobLog[j].execs <= jobs[j].maxRetries + 1
    /\ ExecuteJobsStarted(j) <= jobs[j].maxRetries + 1

\* A job used its two retries and all three executions started; the last
\* failure came from the watchdog.
C12_Witness ==
  \E j \in JobIds :
    /\ jobs[j].maxRetries = 2 /\ jobs[j].retryCount = 2
    /\ ExecuteJobsStarted(j) = 3
    /\ jobs[j].status = "failed"
    /\ jobs[j].error.kind = "timeout"

\* The invocations a step added to the scheduler.
Scheduled(added) == scheduled' = scheduled (+) added

\* One invocation, as a bag.
One(fn, job, sess, attempt, delay) ==
  SetToBag({Task(fn, job, sess, attempt, delay)})

\* The cleanup of job's linked session, when one is linked.
LinkedCleanup(job) ==
  IF job.sessionId # NoId
    THEN One("cleanupSession", NoId, job.sessionId, 1, 0)
    ELSE EmptyBag

WatchdogStep == calls'.watchdogs = calls.watchdogs + 1

\* C14: a watchdog invocation changes no job record, and goes on to call
\* failJob only for a job it found running.
C14_WatchdogIdleWhenNotRunning ==
  [][WatchdogStep =>
       /\ jobs' = jobs /\ jobLog' = jobLog /\ scheduled' = scheduled
       /\ \A w \in BagToSet(watchdogs') :
            CopiesIn(w, watchdogs') > CopiesIn(w, watchdogs) =>
              jobs[w.job].status = "running"]_vars

\* The watchdog was invoked for a job that was not running and made no
\* failJob call: the only job was cancelled before it was ever linked
\* (so it has been pending or cancelled throughout) and was never failed.
C14_Witness ==
  /\ Len(jobs) = 1
  /\ jobs[1].status = "cancelled"
  /\ jobs[1].startedAt = NoTime
  /\ jobLog[1].fails = 0
  /\ calls.watchdogs > 0
  /\ watchdogs = EmptyBag

\* Delivery records of job j with attempt number k, all or those failed.
DeliveriesOf(j, k) ==
  {i \in 1..Len(deliveries) :
     deliveries[i].job = j /\ deliveries[i].attemptNumber = k}

FailedDeliveriesOf(j, k) ==
  {i \in DeliveriesOf(j, k) : deliveries[i].status = "failed"}

\* The HTTP request of delivery record i got its outcome in this step.
FetchStep(i) ==
  deliveries[i].status = "pending" /\ deliveries'[i].status # "pending"

\* C15: delivery attempts are numbered 1 to 3, an attempt after the first
\* is made only for a failed attempt before it (so a trigger gets at most
\* three), a failed attempt below the third schedules the next one after
\* 2^attemptNumber seconds, and a failed third attempt schedules nothing.
C15_WebhookBudget ==
  /\ [](/\ \A i \in 1..Len(deliveries) :
             deliveries[i].attemptNumber \in 1..3
        /\ \A t \in BagToSet(scheduled) :
             t.fn = "sendWebhook" => t.attempt \in 1..3
        /\ \A j \in JobIds, k \in 2..3 :
             Cardinality(DeliveriesOf(j, k))
               <= Cardinality(FailedDeliveriesOf(j, k - 1)))
  /\ [][\A i \in 1..Len(deliveries) :
          (FetchStep(i) /\ deliveries'[i].status = "failed") =>
            IF deliveries[i].attemptNumber < 3
              THEN Scheduled(One("sendWebhook", deliveries[i].job, NoId,
                                 deliveries[i].attemptNumber + 1,
                                 Pow2(deliveries[i].attemptNumber)))
              ELSE scheduled' = scheduled]_vars

\* A trigger used its three attempts, all failed, and nothing more is
\* scheduled or in flight.
C15_Witness ==
  /\ Len(deliveries) = 3
  /\ \A i \in 1..3 :
       deliveries[i].attemptNumber = i /\ deliveries[i].status = "failed"
  /\ sends = EmptyBag
  /\ \A t \in BagToSet(scheduled) : t.fn # "sendWebhook"

\* C16: a delivery answered with a non-2xx status is recorded as failed
\* and, below the third attempt, the next attempt is scheduled.
C16_Non2xxIsFailure ==
  [][\A i \in 1..Len(deliveries) :
       (FetchStep(i) /\ deliveries'[i].statusCode = "non2xx") =>
         /\ deliveries'[i].status = "failed"
         /\ deliveries[i].attemptNumber < 3 =>
              Scheduled(One("sendWebhook", deliveries[i].job, NoId,
                            deliveries[i].attemptNumber + 1,
                            Pow2(deliveries[i].attemptNumber)))]_vars

\* C17: an invocation about to send its HTTP request has its own delivery
\* record, pending and carrying its attempt number; every pending record
\* belongs to one such invocation; records are only added, and a record
\* keeps its job and attempt number and is not written again once it has
\* an outcome.
C17_DeliveryRecordPerAttempt ==
  /\ [](/\ \A e \in BagToSet(sends) :
             e.pc = "fetch" =>
               /\ e.delivery \in 1..Len(deliveries)
               /\ deliveries[e.delivery].status = "pending"
               /\ deliveries[e.delivery].attemptNumber = e.attempt
               /\ deliveries[e.delivery].job = e.job
               /\ CopiesIn(e, sends) = 1
        /\ \A i \in 1..Len(deliveries) :
             deliveries[i].status = "pending" =>
               Cardinality({e \in BagToSet(sends) :
                              e.pc = "fetch" /\ e.delivery = i}) = 1)
  /\ [][/\ Len(deliveries') >= Len(deliveries)
        /\ \A i \in 1..Len(deliveries) :
             /\ deliveries'[i].job = deliveries[i].job
             /\ deliveries'[i].attemptNumber = deliveries[i].attemptNumber
             /\ deliveries[i].status # "pending" =>
                  deliveries'[i] = deliveries[i]]_vars

\* A retry made its own record next to the failed first attempt's.
C17_Witness ==
  /\ Len(deliveries) >= 2
  /\ deliveries[1].attemptNumber = 1 /\ deliveries[1].status = "failed"
  /\ deliveries[2].attemptNumber = 2 /\ deliveries[2].job = deliveries[1].job

\* C18: no step of sendWebhook changes a job or session record.
C18_WebhookWritesOnlyDeliveries ==
  [][(deliveries' # deliveries \/ sends' # sends) =>
       (jobs' = jobs /\ sessions' = sessions)]_vars

\* Deliveries ended in each way: one sent, one failed for good.
C18_Witness ==
  /\ \E i \in 1..Len(deliveries) : deliveries[i].status = "sent"
  /\ \E i \in 1..Len(deliveries) :
       deliveries[i].status = "failed" /\ deliveries[i].attemptNumber = 3

\* A cron mutation was called in this step; cronLog' holds its arguments
\* and its error.
CronStep == cronLog'.calls = cronLog.calls + 1

\* C19: no two existing cron definitions have the same name.
C19_CronNamesUnique ==
  \A a, b \in CronIds :
    (a # b /\ crons[a].exists /\ crons[b].exists) =>
      crons[a].name # crons[b].name

\* C20: createCronJob and updateCronJob called with an invalid expression
\* fail and leave the table as it was; createCronJob called with a name an
\* existing definition has fails and leaves the table as it was.
C20_CronRejections ==
  [][CronStep =>
       /\ (/\ cronLog'.op = "create"
           /\ cronLog'.cronExpression = "bad") =>
            (cronLog'.error # "none" /\ crons' = crons)
       /\ (/\ cronLog'.op = "update"
           /\ cronLog'.cronExpression = "bad") =>
            (cronLog'.error # "none" /\ crons' = crons)
       /\ (/\ cronLog'.op = "create"
           /\ \E id \in CronIds :
                crons[id].exists /\ crons[id].name = cronLog'.name) =>
            (cronLog'.error # "none" /\ crons' = crons)]_vars

\* updateCronJob was refused an invalid expression for a definition that
\* exists.
C20_Witness ==
  /\ cronLog.op = "update"
  /\ cronLog.cronExpression = "bad"
  /\ cronLog.error = "Invalid cron expression"
  /\ CronExists(cronLog.id)

\* Jobs spawned for cron definition id.
InstancesOf(id) == {j \in JobIds : jobs[j].cronJobId = id}

\* C21: within one processDueCronJobs invocation a failure while handling
\* one due definition (its spawn throws because the definition was deleted)
\* stops neither the loop nor the invocation: every definition read is
\* handled in turn, one that failed is a deleted one, every other one has a
\* job spawned and its run counted, and the invocation returns normally.
C21_FailureDoesNotStopTick ==
  /\ \A run \in BagToSet(cronRuns) :
       run.i <= Len(run.due) /\ Len(run.log) = run.i - 1
  /\ ticks.started = ticks.finished + BagCardinality(cronRuns)
  /\ Len(ticks.log) = Len(ticks.due)
  /\ \A k \in 1..Len(ticks.due) :
       \/ /\ ticks.log[k] = "failed"
          /\ ~CronExists(ticks.due[k])
       \/ /\ ticks.log[k] = "spawned"
          /\ InstancesOf(ticks.due[k]) # {}
          /\ CronExists(ticks.due[k]) => crons[ticks.due[k]].runCount >= 1

\* An invocation has returned after failing on its first definition and
\* spawning and updating its second.
C21_Witness ==
  /\ ticks.finished > 0
  /\ ticks.log = <<"failed", "spawned">>
  /\ InstancesOf(ticks.due[2]) # {}
  /\ CronExists(ticks.due[2]) /\ crons[ticks.due[2]].runCount = 1

\* Invocation run made its next call in this step.
RunStep(run) == CopiesIn(run, cronRuns') < CopiesIn(run, cronRuns)

\* Invocations that have spawned for definition id and not yet called
\* updateCronJobAfterRun for it.
AwaitingUpdate(id) ==
  {run \in BagToSet(cronRuns) : run.pc = "update" /\ run.due[run.i] = id}

\* C22: for each due definition an invocation handles, exactly one job is
\* inserted with status pending, retryCount 0, maxRetries 0, the other
\* optional fields absent and cronJobId naming the definition, its
\* executeJob is scheduled with delay 0, and the update that follows adds
\* exactly 1 to runCount, sets lastRunAt to now and nextRunAt after now.
C22_TickSpawnsOneJobAndCounts ==
  /\ [](\A id \in CronIds :
         CronExists(id) =>
           Cardinality(InstancesOf(id))
             = crons[id].runCount + Cardinality(AwaitingUpdate(id)))
  /\ [][/\ \A run \in BagToSet(cronRuns) :
            RunStep(run) /\ run.pc = "spawn" /\ CronExists(run.due[run.i]) =>
              /\ jobs' = Append(jobs,
                   [status |-> "pending", retryCount |-> 0, maxRetries |-> 0,
                    sessionId |-> NoId, startedAt |-> NoTime,
                    completedAt |-> NoTime, result |-> "none",
                    error |-> NoError, webhookUrl |-> FALSE,
                    cronJobId |-> run.due[run.i]])
              /\ Scheduled(One("executeJob", Len(jobs) + 1, NoId, 0, 0))
              /\ [run EXCEPT !.pc = "update"] \in BagToSet(cronRuns')
              /\ crons' = crons
        /\ \A run \in BagToSet(cronRuns) :
            RunStep(run) /\ run.pc = "update" /\ CronExists(run.due[run.i]) =>
              LET id == run.due[run.i]
              IN /\ crons'[id].runCount = crons[id].runCount + 1
                 /\ crons'[id].lastRunAt = now
                 /\ crons'[id].nextRunAt > now
                 /\ jobs' = jobs /\ scheduled' = scheduled
        /\ (\A run \in BagToSet(cronRuns) : ~RunStep(run)) =>
             /\ jobs' = jobs
             /\ \A id \in CronIds : crons'[id].runCount = crons[id].runCount
       ]_vars

\* A definition that was overdue has been handled once: one job is spawned
\* for it and its run is counted.
C22_Witness ==
  \E id \in CronIds :
    /\ CronExists(id)
    /\ crons[id].runCount = 1
    /\ crons[id].lastRunAt = now
    /\ crons[id].nextRunAt > now
    /\ Cardinality(InstancesOf(id)) = 1
    /\ \E j \in InstancesOf(id) :
         /\ jobs[j].status = "pending"
         /\ BagIn(Task("executeJob", j, NoId, 0, 0), scheduled)

\* The definitions invocation run has read.
ReadBy(run) == {run.due[k] : k \in 1..Len(run.due)}

\* C23: an enabled definition does not stay overdue beyond the next
\* processDueCronJobs invocation: the invocation reads every definition that
\* is enabled and overdue when it starts, and its update of a definition it
\* read moves nextRunAt after now.
C23_OverdueHandledByNextTick ==
  [][/\ ticks'.started = ticks.started + 1 =>
          \A id \in CronIds :
            IsDue(id) => \E run \in BagToSet(cronRuns') : id \in ReadBy(run)
     /\ \A run \in BagToSet(cronRuns) :
          RunStep(run) /\ run.pc = "update" /\ CronExists(run.due[run.i]) =>
            crons'[run.due[run.i]].nextRunAt > now
    ]_vars

\* t is the first occurrence of cronExpression after time after.
NextOccurrence(t, cronExpression, after) ==
  /\ t > after
  /\ t % CronPeriod(cronExpression) = 0
  /\ t - CronPeriod(cronExpression) <= after

\* C24: an updateCronJob that changes the expression sets nextRunAt to the
\* first occurrence of the new expression after the time of the update; an
\* updateCronJob that does not change the expression leaves nextRunAt as it
\* was.
C24_NextRunFollowsExpressionChange ==
  [][CronStep /\ cronLog'.op = "update" /\ cronLog'.error = "none" =>
       LET id == cronLog'.id
           given == cronLog'.cronExpression
       IN IF given # Absent /\ given # crons[id].cronExpression
            THEN NextOccurrence(crons'[id].nextRunAt, given, now)
            ELSE crons'[id].nextRunAt = crons[id].nextRunAt]_vars

\* C25: getCronJob called right after a successful createCronJob, on the id
\* it returned, returns the definition with the given name and expression,
\* enabled = true, runCount = 0, no lastRunAt and nextRunAt after the time
\* of the creation.
C25_CreateThenGet ==
  [][CronStep /\ cronLog'.op = "create" /\ cronLog'.error = "none" =>
       \A returned \in {Len(crons) + 1} :
         LET got == GetCronJob(returned)'
         IN /\ Len(got) = 1
            /\ got[1].id = returned
            /\ got[1].name = cronLog'.name
            /\ got[1].cronExpression = cronLog'.cronExpression
            /\ got[1].enabled
            /\ got[1].runCount = 0
            /\ got[1].lastRunAt = NoTime
            /\ got[1].nextRunAt > now]_vars

\* The second definition has just been created at a later time than the
\* first and reads back enabled, not yet run and with its next run ahead.
C25_Witness ==
  /\ cronLog.op = "create" /\ cronLog.error = "none"
  /\ Len(crons) = 2
  /\ now > 0
  /\ GetCronJob(2) # <<>>
  /\ GetCronJob(2)[1].enabled
  /\ GetCronJob(2)[1].runCount = 0
  /\ GetCronJob(2)[1].nextRunAt > now

\* C26: a job record never has both result and error populated: no step
\* taken on a job that is not yet completed, failed or cancelled leaves it
\* with both, so a job that failed an attempt, was retried and then
\* completed has its result and no error.
C26_ResultXorError ==
  [][\A j \in JobIds :
       jobs[j].status \notin TerminalStatuses =>
         jobs'[j].result = "none" \/ jobs'[j].error = NoError]_vars

\* C27: no session record is the linked session of two different jobs, and
\* the session a job is linked to is one that an execution of that job
\* created.
C27_SessionBelongsToOneJob ==
  /\ \A j1, j2 \in JobIds :
       j1 # j2 /\ jobs[j1].sessionId # NoId =>
         jobs[j1].sessionId # jobs[j2].sessionId
  /\ \A j \in JobIds :
       jobs[j].sessionId # NoId =>
         /\ jobs[j].sessionId \in SessionIds
         /\ sessLog[jobs[j].sessionId].job = j

\* Two jobs are linked to sessions at once, one of them to the session of
\* its second execution.
C27_Witness ==
  \E j1, j2 \in JobIds :
    /\ j1 # j2
    /\ jobs[j1].sessionId # NoId /\ jobs[j2].sessionId # NoId
    /\ jobs[j1].retryCount = 1
    /\ \E s \in SessionIds :
         s < jobs[j1].sessionId /\ sessLog[s].job = j1

\* A scheduleJob call was made in this step; the last entry of
\* calls'.scheduleJob is its maxRetries argument.
ScheduleJobStep == Len(calls'.scheduleJob) = Len(calls.scheduleJob) + 1

LinkSessionStep(j) == jobs'[j].sessionId # jobs[j].sessionId

\* C29: each transition of a job to running made by linkSession schedules
\* exactly one watchdog invocation for the job, and no other step schedules
\* one.
C29_WatchdogScheduledAtStart ==
  [][\A j \in JobIds :
       LET added == {t \in BagToSet(scheduled') :
                       /\ t.fn = "watchdog" /\ t.job = j
                       /\ CopiesIn(t, scheduled') > CopiesIn(t, scheduled)}
       IN IF LinkSessionStep(j)
            THEN /\ Cardinality(added) = 1
                 /\ \A t \in added :
                      CopiesIn(t, scheduled') = CopiesIn(t, scheduled) + 1
            ELSE added = {}]_vars

\* The watchdog invocation w made its failJob call in this step.
WatchdogFailStep(w) ==
  /\ CopiesIn(w, watchdogs') < CopiesIn(w, watchdogs)
  /\ FailJobStep(w.job)

\* C30: a watchdog invoked with (j, startedAt, timeout) for a job that is
\* running changes nothing when now - startedAt < timeout; when
\* now - startedAt >= timeout it goes on to one failJob call with the error
\* 'Job timed out after N seconds', N the timeout in seconds, and that call
\* leaves the job pending with retryCount + 1 when retryCount < maxRetries
\* and failed otherwise.
C30_WatchdogFailsTimedOutJob ==
  [][/\ \A j \in JobIds, startedAt \in 0..now, timeout \in JobTimeouts :
          WatchdogCheck(j, startedAt, timeout)
            /\ jobs[j].status = "running" =>
              /\ jobs' = jobs /\ jobLog' = jobLog /\ scheduled' = scheduled
              /\ now - startedAt < timeout => watchdogs' = watchdogs
              /\ now - startedAt >= timeout =>
                   watchdogs' = watchdogs
                     (+) SetToBag({[job |-> j, timeout |-> timeout]})
     /\ \A w \in BagToSet(watchdogs) :
          WatchdogFailStep(w) =>
            /\ watchdogs' = watchdogs (-) SetToBag({w})
            /\ jobLog'[w.job].fails = jobLog[w.job].fails + 1
            /\ jobs'[w.job].error = [kind |-> "timeout", n |-> w.timeout]
            /\ IF jobs[w.job].retryCount < jobs[w.job].maxRetries
                 THEN /\ jobs'[w.job].status = "pending"
                      /\ jobs'[w.job].retryCount = jobs[w.job].retryCount + 1
                 ELSE /\ jobs'[w.job].status = "failed"
                      /\ jobs'[w.job].retryCount = jobs[w.job].retryCount
    ]_vars

\* The watchdog found the job running past its timeout and its failJob call
\* has sent the job back to pending with the first retry used up.
C30_Witness ==
  \E j \in JobIds :
    /\ calls.watchdogs = 1
    /\ watchdogs = EmptyBag
    /\ jobLog[j].fails = 1
    /\ jobs[j].status = "pending"
    /\ jobs[j].retryCount = 1
    /\ jobs[j].error = TimeoutError(1)

\* Invocation e of executeJob made its next call in this step.
ExecStep(e) == CopiesIn(e, execs') < CopiesIn(e, execs)

\* User actions of job j in a bag of invocations.
UserActionsIn(bag, j) ==
  Cardinality({t \in BagToSet(bag) : t.fn = "userAction" /\ t.job = j})

\* C31: when createSession or the scheduling of the user action raises
\* inside executeJob, the invocation dispatches no user action and makes
\* exactly one failJob call with the error's message; that call uses up one
\* retry (retryCount + 1 and one more executeJob scheduled) or, with
\* retryCount = maxRetries, sets the job failed.
C31_ExecutorErrorFailsOnce ==
  [][/\ \A e \in BagToSet(execs') :
         e.pc = "fail" /\ CopiesIn(e, execs') > CopiesIn(e, execs) =>
           /\ e.error \in {CreateError, DispatchError}
           /\ UserActionsIn(scheduled', e.job)
                = UserActionsIn(scheduled, e.job)
           /\ jobLog' = jobLog
     /\ \A e \in BagToSet(execs) :
         ExecStep(e) /\ e.pc = "fail" =>
           LET job == jobs[e.job]
           IN /\ execs' = execs (-) SetToBag({e})
              /\ jobLog'[e.job].fails = jobLog[e.job].fails + 1
              /\ jobs'[e.job].error = e.error
              /\ UserActionsIn(scheduled', e.job)
                   = UserActionsIn(scheduled, e.job)
              /\ IF job.retryCount < job.maxRetries
                   THEN /\ jobs'[e.job].status = "pending"
                        /\ jobs'[e.job].retryCount = job.retryCount + 1
                        /\ jobLog'[e.job].execs = jobLog[e.job].execs + 1
                   ELSE /\ jobs'[e.job].status = "failed"
                        /\ jobs'[e.job].retryCount = job.retryCount
                        /\ jobLog'[e.job].execs = jobLog[e.job].execs]_vars

\* The scheduling of the user action raised on the first attempt of a job
\* with a retry left: the job is back to pending with the dispatch error,
\* one retry used, its executor scheduled again and no user action anywhere.
C31_Witness ==
  \E j \in JobIds :
    /\ jobs[j].status = "pending"
    /\ jobs[j].retryCount = 1
    /\ jobs[j].error = DispatchError
    /\ jobs[j].sessionId # NoId
    /\ jobLog[j].fails = 1
    /\ jobLog[j].execs = 2
    /\ execs = EmptyBag /\ callbacks = EmptyBag
    /\ UserActionsIn(scheduled, j) = 0
    /\ calls.reports = 0

\* C32: executeJob invoked for a job id without a record changes no table,
\* creates no session, schedules nothing and returns normally: no exception
\* leaves the handler.
C32_MissingJobIsNoOp ==
  /\ [](calls.escaped = 0)
  /\ [][\A e \in BagToSet(execs) :
          ExecStep(e) /\ e.job \notin JobIds =>
            /\ jobs' = jobs /\ sessions' = sessions
            /\ scheduled' = scheduled]_vars

\* C33: executeJob acts only on a pending or queued job: an invocation that
\* finds its job cancelled, completed or failed creates no session, and its
\* linkSession call and dispatch leave status, sessionId and startedAt as
\* they were and schedule no user action.
C33_ExecuteJobSkipsSettledJob ==
  [][/\ \A t \in BagToSet(scheduled) :
          /\ t.fn = "executeJob" /\ t.job \in JobIds
          /\ CopiesIn(t, scheduled') < CopiesIn(t, scheduled)
          /\ execs' # execs
          /\ jobs[t.job].status \in TerminalStatuses
          => sessions' = sessions
     /\ \A e \in BagToSet(execs) :
          /\ ExecStep(e) /\ e.pc = "link"
          /\ jobs[e.job].status \in TerminalStatuses
          => /\ jobs'[e.job].status = jobs[e.job].status
             /\ jobs'[e.job].sessionId = jobs[e.job].sessionId
             /\ jobs'[e.job].startedAt = jobs[e.job].startedAt
             /\ UserActionsIn(scheduled', e.job) =
                  UserActionsIn(scheduled, e.job)]_vars

\* A cleanupSession invocation for session s is with the scheduler, is in
\* flight, or has left its mark on the session record.
CleanupScheduledFor(s) ==
  \/ \E t \in BagToSet(scheduled) : t.fn = "cleanupSession" /\ t.sess = s
  \/ \E c \in BagToSet(cleanups) : c.sess = s
  \/ sessions[s].cleanupStatus # "none"
  \/ sessLog[s].skips > 0

\* C34: every session executeJob created for a job and has passed to
\* linkSession is the job's linked session or has had cleanupSession
\* scheduled for it: no linkSession replaces a linked session whose cleanup
\* was not scheduled.
C34_EverySessionLinkedOrCleaned ==
  \A s \in 1..Len(sessions) :
    \/ \E e \in BagToSet(execs) : e.sess = s /\ e.pc = "link"
    \/ jobs[sessLog[s].job].sessionId = s
    \/ CleanupScheduledFor(s)

\* The startedAt values linkSession has stored for job j, one per attempt.
AttemptStarts(j) ==
  {sessLog[s].linkedAt :
     s \in {x \in 1..Len(sessLog) :
              sessLog[x].job = j /\ sessLog[x].linkedAt # NoTime}}

\* C35: a watchdog invoked with the startedAt of one of the job's attempts
\* goes on to fail the job only if the attempt now stored on the job record
\* has been running for the timeout or longer: the watchdog of an earlier
\* attempt does not fail a retry that has run for less.
C35_WatchdogJudgesCurrentAttempt ==
  [][\A j \in JobIds, startedAt \in 0..now, timeout \in JobTimeouts :
       /\ WatchdogCheck(j, startedAt, timeout)
       /\ startedAt \in AttemptStarts(j)
       /\ watchdogs' # watchdogs
       => now - jobs[j].startedAt >= timeout]_vars

\* C36: a session whose cleanupStatus has become success keeps it: no step
\* of any cleanupSession chain, interleaved with another chain for the same
\* session or not, sets it back to pending or to failed.
C36_CleanupSuccessIsFinal ==
  [][\A s \in 1..Len(sessions) :
       sessions[s].cleanupStatus = "success" =>
         sessions'[s].cleanupStatus = "success"]_vars

\* C37: a cleanupSession invocation that found the session recorded as
\* COMPLETED or TIMED_OUT (cleanupStatus not success) makes no release call
\* at the provider, sets cleanupStatus to success and leaves the recorded
\* status as it was: TIMED_OUT stays TIMED_OUT.
C37_ClosedSessionKeepsStatus ==
  [][\A c \in BagToSet(cleanups) :
       c.pc = "markClosed" /\ CopiesIn(c, cleanups') < CopiesIn(c, cleanups)
       => /\ sessLog'[c.sess].releases = sessLog[c.sess].releases
          /\ sessions'[c.sess].cleanupStatus = "success"
          /\ sessions'[c.sess].status = sessions[c.sess].status]_vars

\* C38: every webhook delivery carries a payload built from a job that was
\* completed or failed when sendWebhook read it, with event job.completed
\* exactly for status completed and job.failed exactly for status failed.
C38_WebhookOnlyForSettledJob ==
  \A d \in 1..Len(deliveries) :
    /\ deliveries[d].jobStatus \in {"completed", "failed"}
    /\ deliveries[d].event = "job.completed"
         <=> deliveries[d].jobStatus = "completed"
    /\ deliveries[d].event = "job.failed"
         <=> deliveries[d].jobStatus = "failed"

\* C39: for each cron definition, each due occurrence (one value of
\* nextRunAt that has passed) has at most one job spawned for it, also when
\* the updateCronJobAfterRun call that follows a spawn fails or is skipped.
C39_OneJobPerOccurrence ==
  \A id \in CronIds :
    \A j1 \in InstancesOf(id), j2 \in InstancesOf(id) :
      j1 # j2 /\ jobLog[j1].occurrence # NoTime
        => jobLog[j1].occurrence # jobLog[j2].occurrence

\* C40: spawnCronJobInstance inserts a job only for a definition that is
\* enabled and due (nextRunAt <= now) as the mutation runs: a definition
\* that updateCronJob disabled after the invocation's query read it as due
\* has no job spawned.
C40_SpawnOnlyEnabledAndDue ==
  [][\A run \in BagToSet(cronRuns) :
       ProcessSpawn(run) /\ Len(jobs') > Len(jobs)
       => /\ crons[run.due[run.i]].enabled
          /\ crons[run.due[run.i]].nextRunAt <= now]_vars

============================================================================
